---- MODULE Spec2Model ----
(***************************************************************************)
(* Model of extraer_casillas (src/app.py): classification of the words of  *)
(* each page into amount and code candidates, the per-code nearest-amount  *)
(* search, the document-wide code -> amount dictionary and the final       *)
(* CASILLA_INICIO..CASILLA_FIN table.                                      *)
(*                                                                         *)
(* Representation.                                                         *)
(*  - A text is a sequence of characters, each character a one-character   *)
(*    string; "U+0662" stands for the single character ARABIC-INDIC DIGIT  *)
(*    TWO (Python's \d and int() accept every Unicode decimal digit).      *)
(*  - Coordinates are integers.  A vertical centre (y0 + y1) / 2 is kept   *)
(*    doubled (y0 + y1), and so is the tolerance: y_tol2 = 2 * y_tol.      *)
(*    dy > y_tol  <=>  2*dy > 2*y_tol, all values exact.                   *)
(*  - math.hypot(dx, dy) is kept as 4 * (dx^2 + dy^2) = 4*dx^2 + (2*dy)^2: *)
(*    hypot is only ever compared with <, and x |-> 4*x^2 is strictly      *)
(*    increasing on the non-negative reals.                                *)
(*  - None is the empty sequence <<>> and a present value v is <<v>>.      *)
(***************************************************************************)
EXTENDS Integers, Sequences, FiniteSets, TLC

VARIABLES doc, y_tol2, pc, p, valores, casillas, k,
          mejor_valor, mejor_dist, casillas_encontradas, tabla

vars == <<doc, y_tol2, pc, p, valores, casillas, k,
          mejor_valor, mejor_dist, casillas_encontradas, tabla>>

\* ------------------------------------------------------------------------
\* Configuration
\* ------------------------------------------------------------------------
CASILLA_INICIO == 1000
CASILLA_FIN == 2600
\* y_tol: float = 2.5, doubled
Y_TOL_X2 == 5

None == <<>>
Some(v) == <<v>>

Abs(n) == IF n < 0 THEN -n ELSE n

\* ------------------------------------------------------------------------
\* Characters
\* ------------------------------------------------------------------------
DIGITOS_ASCII == <<"0", "1", "2", "3", "4", "5", "6", "7", "8", "9">>

\* the characters \d of a str pattern matches: any Unicode decimal digit
DIGITOS ==
    {"0", "1", "2", "3", "4", "5", "6", "7", "8", "9", "U+0662"}

EsDigito(c) == c \in DIGITOS

\* the digit's value, as int() reads it
ValorDigito(c) ==
    IF c = "U+0662" THEN 2 ELSE CHOOSE d \in 0..9 : DIGITOS_ASCII[d + 1] = c

\* whitespace removed by str.strip()
EsEspacio(c) == c = " "

\* texto.strip()
RECURSIVE QuitarIzq(_)
QuitarIzq(t) ==
    IF t # <<>> /\ EsEspacio(t[1]) THEN QuitarIzq(Tail(t)) ELSE t

RECURSIVE QuitarDer(_)
QuitarDer(t) ==
    IF t # <<>> /\ EsEspacio(t[Len(t)])
    THEN QuitarDer(SubSeq(t, 1, Len(t) - 1))
    ELSE t

Strip(t) == QuitarDer(QuitarIzq(t))

\* ------------------------------------------------------------------------
\* PATRON_IMPORTE = -?\d{1,3}(?:\.\d{3})*,\d{2}$  run with fullmatch.
\* The pattern is deterministic; it is run as its automaton:
\*   0 start, 1 after '-', 2..4 after 1..3 leading digits, 5 after '.',
\*   6,7 after 1,2 digits of a group, 8 after a whole group, 9 after ',',
\*   10 after one decimal, 11 after two decimals (accepting), 12 dead.
\* ($ consumes nothing and fullmatch requires the match to end at the end
\*  of the text, so $ adds nothing to fullmatch.)
\* ------------------------------------------------------------------------
\* faulty variant: \d+ in place of \d{1,3}
PatronDeltaLaxo(q, c) ==
    CASE q = 0 /\ c = "-" -> 1
      [] q \in {0, 1} /\ EsDigito(c) -> 2
      [] q \in {2, 3} /\ EsDigito(c) -> q + 1
      [] q = 4 /\ EsDigito(c) -> 4
      [] q \in {2, 3, 4, 8} /\ c = "." -> 5
      [] q \in {2, 3, 4, 8} /\ c = "," -> 9
      [] q \in {5, 6, 7} /\ EsDigito(c) -> q + 1
      [] q \in {9, 10} /\ EsDigito(c) -> q + 1
      [] OTHER -> 12

\* the automaton's transition
PatronDelta(q, c) ==
    CASE q = 0 /\ c = "-" -> 1
      [] q \in {0, 1} /\ EsDigito(c) -> 2
      [] q \in {2, 3} /\ EsDigito(c) -> q + 1
      [] q \in {2, 3, 4, 8} /\ c = "." -> 5
      [] q \in {2, 3, 4, 8} /\ c = "," -> 9
      [] q \in {5, 6, 7} /\ EsDigito(c) -> q + 1
      [] q \in {9, 10} /\ EsDigito(c) -> q + 1
      [] OTHER -> 12

RECURSIVE PatronCorrer(_, _, _)
PatronCorrer(t, i, q) ==
    IF i > Len(t) THEN q ELSE PatronCorrer(t, i + 1, PatronDelta(q, t[i]))

\* PATRON_IMPORTE.fullmatch(t)
PATRON_IMPORTE(t) == PatronCorrer(t, 1, 0) = 11

\* re.fullmatch(r"\d{5}", t)
CincoDigitos(t) == Len(t) = 5 /\ \A i \in 1..5 : EsDigito(t[i])

\* int(t) of an all-digit text
RECURSIVE IntDe(_)
IntDe(t) ==
    IF t = <<>> THEN 0
    ELSE 10 * IntDe(SubSeq(t, 1, Len(t) - 1)) + ValorDigito(t[Len(t)])

\* CASILLA_INICIO <= n <= CASILLA_FIN
EnRango(n) == CASILLA_INICIO <= n /\ n <= CASILLA_FIN

\* the class the loop body of lines 68-80 gives one word
Clase(texto) ==
    LET t == Strip(texto)
    IN  IF PATRON_IMPORTE(t) THEN "importe"
        ELSE IF CincoDigitos(t) /\ EnRango(IntDe(t)) THEN "casilla"
        ELSE "otro"

\* the tuple (x0, y0, x1, y1, t) appended for a word
Tupla(w) ==
    [x0 |-> w.x0, y0 |-> w.y0, x1 |-> w.x1, y1 |-> w.y1,
     texto |-> Strip(w.texto)]

\* the words of a class, in the order of the page
RECURSIVE Candidatos(_, _)
Candidatos(words, clase) ==
    IF words = <<>> THEN <<>>
    ELSE LET resto == Candidatos(Tail(words), clase)
         IN  IF Clase(Head(words).texto) = clase
             THEN <<Tupla(Head(words))>> \o resto
             ELSE resto

\* ------------------------------------------------------------------------
\* valores.sort(key=lambda w: (w[1] + w[3]) / 2): a stable sort
\* ------------------------------------------------------------------------
\* twice the key (w[1] + w[3]) / 2
CentroY2(w) == w.y0 + w.y1

RECURSIVE Insertar(_, _)
Insertar(s, w) ==
    IF s = <<>> THEN <<w>>
    ELSE IF CentroY2(s[Len(s)]) <= CentroY2(w) THEN Append(s, w)
    ELSE Append(Insertar(SubSeq(s, 1, Len(s) - 1), w), s[Len(s)])

\* faulty variant: a sort that keeps one word per key
RECURSIVE OrdenarUnoPorClave(_)
OrdenarUnoPorClave(s) ==
    IF s = <<>> THEN <<>>
    ELSE LET antes == OrdenarUnoPorClave(SubSeq(s, 1, Len(s) - 1))
             w == s[Len(s)]
         IN  IF \E i \in 1..Len(antes) : CentroY2(antes[i]) = CentroY2(w)
             THEN antes
             ELSE Insertar(antes, w)

\* valores.sort(...)
RECURSIVE Ordenar(_)
Ordenar(s) ==
    IF s = <<>> THEN <<>>
    ELSE Insertar(Ordenar(SubSeq(s, 1, Len(s) - 1)), s[Len(s)])

\* ------------------------------------------------------------------------
\* The search of lines 93-114 for one code candidate
\* ------------------------------------------------------------------------
\* faulty variant: dy >= y_tol
MuyLejosYEstricto(dy2, tol2) == dy2 >= tol2

\* faulty variant: no vertical test
MuyLejosYNunca(dy2, tol2) == FALSE

\* if dy > y_tol: continue
MuyLejosY(dy2, tol2) == dy2 > tol2

\* faulty variant: dx <= -2
ALaIzquierdaEstricto(dx) == dx <= -2

\* if dx < -2: continue
ALaIzquierda(dx) == dx < -2

\* faulty variant: the horizontal distance alone
HypotSoloDx(dx, dy2) == 4 * dx * dx

\* math.hypot(dx, dy), as 4 * hypot^2
Hypot(dx, dy2) == 4 * dx * dx + dy2 * dy2

\* faulty variant: dist <= mejor_dist
MejoraConEmpate(dist, md) == md = None \/ dist <= md[1]

\* if mejor_dist is None or dist < mejor_dist
Mejora(dist, md) == md = None \/ dist < md[1]

RECURSIVE Buscar(_, _, _, _, _)
Buscar(c, vs, i, tol2, m) ==
    IF i > Len(vs) THEN m
    ELSE LET v == vs[i]
             dy2 == Abs(CentroY2(v) - CentroY2(c))
             dx == v.x0 - c.x1
             dist == Hypot(dx, dy2)
         IN  IF MuyLejosY(dy2, tol2) THEN Buscar(c, vs, i + 1, tol2, m)
             ELSE IF ALaIzquierda(dx) THEN Buscar(c, vs, i + 1, tol2, m)
             ELSE IF Mejora(dist, m.mejor_dist)
                  THEN Buscar(c, vs, i + 1, tol2,
                              [mejor_valor |-> Some(v.texto),
                               mejor_dist |-> Some(dist)])
                  ELSE Buscar(c, vs, i + 1, tol2, m)

\* mejor_valor, mejor_dist after the inner loop for code candidate c
Emparejar(c, vs, tol2) ==
    Buscar(c, vs, 1, tol2, [mejor_valor |-> None, mejor_dist |-> None])

\* faulty variant: casillas_encontradas.setdefault(cod, v)
AsignarSiFalta(m, cod, v) ==
    [c \in DOMAIN m \cup {cod} |-> IF c \in DOMAIN m THEN m[c] ELSE v]

\* casillas_encontradas[cod] = v
Asignar(m, cod, v) ==
    [c \in DOMAIN m \cup {cod} |-> IF c = cod THEN v ELSE m[c]]

\* faulty variant: the assignment without its guard
RegistrarSiempre(m, cod, mv) ==
    IF mv # None THEN Asignar(m, cod, mv[1]) ELSE Asignar(m, cod, <<>>)

\* if mejor_valor is not None: casillas_encontradas[cod] = mejor_valor
Registrar(m, cod, mv) ==
    IF mv # None THEN Asignar(m, cod, mv[1]) ELSE m

\* ------------------------------------------------------------------------
\* The table of lines 119-133
\* ------------------------------------------------------------------------
\* list(range(a, b))
Range(a, b) == [i \in 1..(IF b > a THEN b - a ELSE 0) |-> a + i - 1]

RECURSIVE Decimal(_)
Decimal(n) ==
    IF n < 10 THEN <<DIGITOS_ASCII[n + 1]>>
    ELSE Append(Decimal(n \div 10), DIGITOS_ASCII[(n % 10) + 1])

RECURSIVE Ceros(_)
Ceros(n) == IF n <= 0 THEN <<>> ELSE <<"0">> \o Ceros(n - 1)

\* f"{n:05d}": sign, then zeros up to a total width of 5, then the digits
Formato05d(n) ==
    LET signo == IF n < 0 THEN <<"-">> ELSE <<>>
        d == Decimal(Abs(n))
    IN  signo \o Ceros(5 - Len(signo) - Len(d)) \o d

\* faulty variant: range(CASILLA_INICIO, CASILLA_FIN)
casillas_ordenadas_sin_fin ==
    LET r == Range(CASILLA_INICIO, CASILLA_FIN)
    IN  [i \in DOMAIN r |-> Formato05d(r[i])]

\* [f"{n:05d}" for n in range(CASILLA_INICIO, CASILLA_FIN + 1)]
casillas_ordenadas ==
    LET r == Range(CASILLA_INICIO, CASILLA_FIN + 1)
    IN  [i \in DOMAIN r |-> Formato05d(r[i])]

\* casillas_encontradas.get(c, "")
Get(m, c) == IF c \in DOMAIN m THEN m[c] ELSE <<>>

\* pd.DataFrame(filas)
filas(m) ==
    LET co == casillas_ordenadas
    IN  [i \in DOMAIN co |-> [Casilla |-> co[i], Valor |-> Get(m, co[i])]]

\* ------------------------------------------------------------------------
\* Steps of extraer_casillas
\* ------------------------------------------------------------------------
\* the state at line 57, for document d and tolerance tol2
Entrada(d, tol2) ==
    /\ doc = d
    /\ y_tol2 = tol2
    /\ pc = "pagina"
    /\ p = 1
    /\ valores = <<>>
    /\ casillas = <<>>
    /\ k = 1
    /\ mejor_valor = None
    /\ mejor_dist = None
    /\ casillas_encontradas = <<>>
    /\ tabla = <<>>

\* lines 60-88: one iteration of "for page in doc" up to the inner loops
LeerPagina ==
    /\ pc = "pagina"
    /\ p <= Len(doc)
    /\ LET vs == Candidatos(doc[p], "importe")
           cs == Candidatos(doc[p], "casilla")
       IN  /\ casillas' = cs
           /\ k' = 1
           /\ IF cs = <<>> \/ vs = <<>>
              THEN /\ valores' = vs
                   /\ p' = p + 1
                   /\ pc' = "pagina"
              ELSE /\ valores' = Ordenar(vs)
                   /\ p' = p
                   /\ pc' = "casilla"
    /\ UNCHANGED <<doc, y_tol2, mejor_valor, mejor_dist,
                   casillas_encontradas, tabla>>

\* lines 92-117: one iteration of "for ... in casillas"
EmparejarCasilla ==
    /\ pc = "casilla"
    /\ k <= Len(casillas)
    /\ LET m == Emparejar(casillas[k], valores, y_tol2)
       IN  /\ mejor_valor' = m.mejor_valor
           /\ mejor_dist' = m.mejor_dist
           /\ casillas_encontradas' =
                  Registrar(casillas_encontradas, casillas[k].texto,
                            m.mejor_valor)
    /\ k' = k + 1
    /\ IF k + 1 > Len(casillas)
       THEN pc' = "pagina" /\ p' = p + 1
       ELSE pc' = "casilla" /\ p' = p
    /\ UNCHANGED <<doc, y_tol2, valores, casillas, tabla>>

\* lines 119-133: after the last page
ConstruirTabla ==
    /\ pc = "pagina"
    /\ p > Len(doc)
    /\ tabla' = filas(casillas_encontradas)
    /\ pc' = "fin"
    /\ UNCHANGED <<doc, y_tol2, p, valores, casillas, k, mejor_valor,
                   mejor_dist, casillas_encontradas>>

\* ------------------------------------------------------------------------
\* Documents
\* ------------------------------------------------------------------------
Palabra(a, b, c, d, t) == [x0 |-> a, y0 |-> b, x1 |-> c, y1 |-> d, texto |-> t]

\* sequences over S of length at most n
SeqHasta(S, n) == UNION {[1..m -> S] : m \in 0..n}

T_01000 == <<"0", "1", "0", "0", "0">>
T_01001 == <<"0", "1", "0", "0", "1">>
T_02600 == <<"0", "2", "6", "0", "0">>
T_02601 == <<"0", "2", "6", "0", "1">>
T_00999 == <<"0", "0", "9", "9", "9">>
T_0100u == <<"0", "1", "0", "0", "U+0662">>
T_100 == <<"1", "0", "0", ",", "0", "0">>
T_200 == <<"2", "0", "0", ",", "0", "0">>
T_300 == <<"3", "0", "0", ",", "0", "0">>
T_17772 == <<"1", "7", ".", "7", "7", "2", ",", "6", "0">>
T_1234_5 == <<"1", ".", "2", "3", "4", ",", "5">>
T_1234_56 == <<"1", "2", "3", "4", ",", "5", "6">>

\* Pages of the whole-document specification.  Codes are printed in the
\* box x 0..10, y 20..24 (or lower on the page, y 40..44); amounts to
\* their right.
PaginasDoc ==
    { <<>>,
      \* 01000 -> 100,00
      << Palabra(0, 20, 10, 24, T_01000), Palabra(12, 20, 30, 24, T_100) >>,
      \* 01000 -> 200,00, amount first in the stream
      << Palabra(12, 21, 30, 25, T_200), Palabra(0, 20, 10, 24, T_01000) >>,
      \* a code and no amount
      << Palabra(0, 20, 10, 24, T_01000) >>,
      \* an amount and no code
      << Palabra(12, 20, 30, 24, T_100) >>,
      \* a code and an amount on another line
      << Palabra(0, 20, 10, 24, T_01000), Palabra(12, 40, 30, 44, T_300) >>,
      \* two codes, one amount each; a third amount left of the codes
      << Palabra(0, 20, 10, 24, T_01001), Palabra(12, 20, 30, 24, T_17772),
         Palabra(0, 40, 10, 44, T_02600), Palabra(12, 40, 30, 44, T_300),
         Palabra(0, 30, 5, 34, T_100) >>,
      \* codes out of the range, aligned with an amount
      << Palabra(0, 20, 10, 24, T_02601), Palabra(0, 20, 10, 24, T_00999),
         Palabra(12, 20, 30, 24, T_100) >>,
      \* a code written with a non-ASCII digit, aligned with an amount
      << Palabra(0, 20, 10, 24, T_0100u), Palabra(12, 20, 30, 24, T_200) >>,
      \* a code aligned with texts that are no amounts, then with one that is
      << Palabra(0, 20, 10, 24, T_01000), Palabra(12, 20, 30, 24, T_1234_5),
         Palabra(32, 20, 50, 24, T_1234_56),
         Palabra(52, 20, 70, 24, <<" ">> \o T_300 \o <<" ">>) >> }

MaxPaginas == 2

\* ------------------------------------------------------------------------
\* Whole documents: every step of extraer_casillas
\* ------------------------------------------------------------------------
Init == \E d \in SeqHasta(PaginasDoc, MaxPaginas) : Entrada(d, Y_TOL_X2)

Next == LeerPagina \/ EmparejarCasilla \/ ConstruirTabla

Spec == Init /\ [][Next]_vars

\* ------------------------------------------------------------------------
\* Properties of whole documents (checked under Spec)
\* ------------------------------------------------------------------------
ASCII == {"0", "1", "2", "3", "4", "5", "6", "7", "8", "9"}

ValorAscii(c) == CHOOSE d \in 0..9 : DIGITOS_ASCII[d + 1] = c

\* s is the five-character zero-padded decimal numeral of n
EsDecimalDeCinco(s, n) ==
    /\ Len(s) = 5
    /\ \A j \in 1..5 : s[j] \in ASCII
    /\ n = 10000 * ValorAscii(s[1]) + 1000 * ValorAscii(s[2])
           + 100 * ValorAscii(s[3]) + 10 * ValorAscii(s[4]) + ValorAscii(s[5])

\* the rows of the table that hold a value
FilasConValor == {i \in 1..Len(tabla) : tabla[i].Valor # <<>>}

\* C1: the returned table has exactly CASILLA_FIN - CASILLA_INICIO + 1 rows
\* and row i (0-based) carries the five-character zero-padded decimal of
\* CASILLA_INICIO + i, whatever was matched.
C1_TablaCompleta ==
    pc = "fin" =>
        /\ Len(tabla) = CASILLA_FIN - CASILLA_INICIO + 1
        /\ \A i \in 1..Len(tabla) :
               EsDecimalDeCinco(tabla[i].Casilla, CASILLA_INICIO + (i - 1))

C1_Testigo ==
    /\ pc = "fin"
    /\ Len(doc) = 2
    /\ Cardinality(FilasConValor) >= 2
    /\ Cardinality(FilasConValor) < Len(tabla)

\* amount v passes both tests against code c: vertical centres within the
\* tolerance, and left edge at most 2 left of the code's right edge
AdmitidoPor(v, c) ==
    /\ Abs((v.y0 + v.y1) - (c.y0 + c.y1)) <= y_tol2
    /\ v.x0 - c.x1 >= -2

EsImporte(w) == Clase(w.texto) = "importe"

EsCasilla(w) == Clase(w.texto) = "casilla"

\* some page holds a code token reading cod and an amount candidate reading
\* val that passes both tests against it
HayPareja(cod, val) ==
    \E q \in 1..Len(doc) : \E i, j \in 1..Len(doc[q]) :
        /\ EsCasilla(doc[q][i])
        /\ Strip(doc[q][i].texto) = cod
        /\ EsImporte(doc[q][j])
        /\ Strip(doc[q][j].texto) = val
        /\ AdmitidoPor(doc[q][j], doc[q][i])

\* the texts of the code candidates of the document
CodigosEnDoc ==
    {Strip(doc[q][i].texto) :
        <<q, i>> \in {qi \in (1..Len(doc)) \X (1..5) :
                          /\ qi[2] <= Len(doc[qi[1]])
                          /\ EsCasilla(doc[qi[1]][qi[2]])}}

\* C2: every non-empty value of the table is the text of an amount
\* candidate that passed both tests against a code token with the row's
\* code on the same page; a code with no such pair on any page is blank.
C2_ValorSoloSiAdmitido ==
    pc = "fin" =>
        \A i \in 1..Len(tabla) :
            tabla[i].Valor = <<>> \/ HayPareja(tabla[i].Casilla, tabla[i].Valor)

C2_Testigo ==
    /\ pc = "fin"
    /\ FilasConValor # {}
    /\ \E i \in 1..Len(tabla) :
           /\ tabla[i].Valor = <<>>
           /\ tabla[i].Casilla \in CodigosEnDoc
           /\ \E q \in 1..Len(doc) : \E a, b \in 1..Len(doc[q]) :
                  /\ Strip(doc[q][a].texto) = tabla[i].Casilla
                  /\ EsImporte(doc[q][b])

\* the amount page pg gives code cod (None when it gives none): that of
\* the last code candidate reading cod that found an amount
CoincidenciaEn(pg, cod) ==
    LET vs == Candidatos(pg, "importe")
        cs == Candidatos(pg, "casilla")
        halla == {i \in 1..Len(cs) :
                     /\ cs[i].texto = cod
                     /\ Emparejar(cs[i], Ordenar(vs), y_tol2).mejor_valor # None}
    IN  IF cs = <<>> \/ vs = <<>> \/ halla = {} THEN None
        ELSE LET u == CHOOSE i \in halla : \A j \in halla : j <= i
             IN  Emparejar(cs[u], Ordenar(vs), y_tol2).mejor_valor

\* row of the table for code cod
ValorDe(cod) ==
    LET I == {i \in 1..Len(tabla) : tabla[i].Casilla = cod}
    IN  IF I = {} THEN None ELSE Some(tabla[CHOOSE i \in I : TRUE].Valor)

\* C3: when a code obtains a match on two different pages, the value of
\* its row is the amount matched on the later page.
C3_UltimaPaginaGana ==
    pc = "fin" =>
        \A cod \in {tabla[i].Casilla : i \in 1..Len(tabla)} \cap CodigosEnDoc :
            \A a, b \in 1..Len(doc) :
                (/\ a < b
                 /\ CoincidenciaEn(doc[a], cod) # None
                 /\ CoincidenciaEn(doc[b], cod) # None
                 /\ \A c \in (b + 1)..Len(doc) : CoincidenciaEn(doc[c], cod) = None)
                => ValorDe(cod) = CoincidenciaEn(doc[b], cod)

C3_Testigo ==
    /\ pc = "fin"
    /\ Len(doc) = 2
    /\ CoincidenciaEn(doc[1], T_01000) = Some(T_100)
    /\ CoincidenciaEn(doc[2], T_01000) = Some(T_200)
    /\ ValorDe(T_01000) = Some(T_200)

\* C10: a step never removes a code from the dictionary and changes its
\* amount only when a code candidate with that text has just found one;
\* the table then shows, for every row whose code is in the dictionary,
\* that amount, which is not empty.
C10_NuncaSeBorra ==
    [][ /\ \A c \in DOMAIN casillas_encontradas :
               /\ c \in DOMAIN casillas_encontradas'
               /\ casillas_encontradas'[c] # casillas_encontradas[c]
                  => /\ pc = "casilla"
                     /\ casillas[k].texto = c
                     /\ mejor_valor' # None
                     /\ casillas_encontradas'[c] = mejor_valor'[1]
        /\ pc' = "fin" =>
               \A i \in 1..Len(tabla') :
                   tabla'[i].Casilla \in DOMAIN casillas_encontradas
                   => /\ tabla'[i].Valor # <<>>
                      /\ tabla'[i].Valor = casillas_encontradas[tabla'[i].Casilla]
      ]_vars

\* a code matched on page 1 meets, on page 2, a page that gives it nothing
\* although the code is printed there
C10_Testigo ==
    /\ pc = "fin"
    /\ Len(doc) = 2
    /\ \E cod \in CodigosEnDoc :
           /\ CoincidenciaEn(doc[1], cod) # None
           /\ CoincidenciaEn(doc[2], cod) = None
           /\ \E i \in 1..Len(doc[2]) : Strip(doc[2][i].texto) = cod
           /\ ValorDe(cod) = CoincidenciaEn(doc[1], cod)

\* ------------------------------------------------------------------------
\* One page, many layouts: the steps up to the dictionary
\* ------------------------------------------------------------------------
\* code tokens: 01000 in the box x 0..10, y 20..24 (centre 22); 01000 and
\* 01001 in the box x 0..6, y 22..25 (centre 23.5)
CasillasPagina ==
    LET K1 == Palabra(0, 20, 10, 24, T_01000)
        K2 == Palabra(0, 22, 6, 25, T_01000)
        K3 == Palabra(0, 22, 6, 25, T_01001)
    IN  {<<K1>>, <<K1, K3>>, <<K2, K1>>}

\* boxes <<left, top, bottom>> of the amounts.  Against the first code box:
\* dx = -2, 2, -2, -2, -3, -2 and dy = 0, 0, 2.5, 2.5, 0, 3 (the third
\* above the code, the others level with it or below)
Cajas ==
    { <<8, 20, 24>>, <<12, 20, 24>>, <<8, 17, 22>>, <<8, 22, 27>>,
      <<7, 20, 24>>, <<8, 23, 27>> }

MaxValores == 3

\* y_tol = 2.5 (the default) and y_tol = 3.0
Tolerancias == {Y_TOL_X2, Y_TOL_X2 + 1}

\* the i-th amount of a page reads "i,00"
TextoImporte(i) == <<DIGITOS_ASCII[i + 1], ",", "0", "0">>

ImportesEn(gs) ==
    [i \in 1..Len(gs) |->
        Palabra(gs[i][1], gs[i][2], gs[i][1] + 15, gs[i][3], TextoImporte(i))]

InitEmparejar ==
    \E cs \in CasillasPagina, gs \in SeqHasta(Cajas, MaxValores),
       tol2 \in Tolerancias :
        Entrada(<<cs \o ImportesEn(gs)>>, tol2)

NextEmparejar == LeerPagina \/ EmparejarCasilla

SpecEmparejar == InitEmparejar /\ [][NextEmparejar]_vars

\* ------------------------------------------------------------------------
\* Properties of the search (checked under SpecEmparejar)
\* ------------------------------------------------------------------------
\* a code candidate of the page has just been through the search
Hecha == k > 1

\* that code candidate, and its page as the document gives it
LaCasilla == casillas[k - 1]

LaPagina == doc[IF pc = "casilla" THEN p ELSE p - 1]

\* positions of the amount candidates in the page
Importes == {i \in 1..Len(LaPagina) : EsImporte(LaPagina[i])}

TextoDe(i) == Strip(LaPagina[i].texto)

Dx(i) == LaPagina[i].x0 - LaCasilla.x1

\* twice |amount.vcenter - code.vcenter|
Dy2(i) ==
    Abs((LaPagina[i].y0 + LaPagina[i].y1) - (LaCasilla.y0 + LaCasilla.y1))

\* four times the squared Euclidean distance over (dx, dy)
Distancia(i) == 4 * (Dx(i) * Dx(i)) + Dy2(i) * Dy2(i)

Admitidos == {i \in Importes : Dy2(i) <= y_tol2 /\ Dx(i) >= -2}

Minimos ==
    LET A == Admitidos
    IN  {i \in A : \A j \in A : Distancia(i) <= Distancia(j)}

\* C4: a code candidate with admitted amounts records the text of an
\* admitted amount whose distance is at most that of every admitted one.
C4_GanaElMasCercano ==
    (Hecha /\ Admitidos # {}) =>
        /\ mejor_valor # None
        /\ casillas_encontradas[LaCasilla.texto] = mejor_valor[1]
        /\ LET M == Minimos IN \E i \in M : TextoDe(i) = mejor_valor[1]

C4_Testigo ==
    /\ Hecha
    /\ Cardinality(Admitidos) >= 2
    /\ LET A == Admitidos IN \E i, j \in A :
           /\ i < j
           /\ Distancia(j) < Distancia(i)
           /\ mejor_valor = Some(TextoDe(j))

\* C5: the amount chosen is never one whose vertical distance exceeds
\* y_tol, and an amount at exactly y_tol (not left of the limit) is
\* eligible, so the code does get an amount.
C5_LimiteVertical ==
    Hecha =>
        /\ mejor_valor # None =>
               \E i \in Importes :
                   TextoDe(i) = mejor_valor[1] /\ Dy2(i) <= y_tol2
        /\ \A i \in Importes :
               (Dy2(i) = y_tol2 /\ Dx(i) >= -2) => mejor_valor # None

C5_Testigo ==
    /\ Hecha
    /\ LET I == Importes IN \E i, j \in I :
           /\ Dy2(i) = y_tol2 /\ Dx(i) >= -2
           /\ mejor_valor = Some(TextoDe(i))
           /\ Dy2(j) > y_tol2 /\ Dx(j) >= -2

\* C6: the amount chosen is never one whose left edge is more than 2 left
\* of the code's right edge, and an amount exactly 2 left of it (within
\* the vertical tolerance) is eligible, so the code does get an amount.
C6_LimiteIzquierdo ==
    Hecha =>
        /\ mejor_valor # None =>
               \E i \in Importes :
                   TextoDe(i) = mejor_valor[1] /\ Dx(i) >= -2
        /\ \A i \in Importes :
               (Dx(i) = -2 /\ Dy2(i) <= y_tol2) => mejor_valor # None

C6_Testigo ==
    /\ Hecha
    /\ LET I == Importes IN \E i, j \in I :
           /\ Dx(i) = -2 /\ Dy2(i) <= y_tol2
           /\ mejor_valor = Some(TextoDe(i))
           /\ Dx(j) < -2 /\ Dy2(j) <= y_tol2
           /\ Distancia(j) < Distancia(i)

\* i comes before j once the amounts are stably sorted by vertical centre
Antes(i, j) ==
    LET ci == LaPagina[i].y0 + LaPagina[i].y1
        cj == LaPagina[j].y0 + LaPagina[j].y1
    IN  ci < cj \/ (ci = cj /\ i <= j)

\* C8: among the admitted amounts at the minimum distance, the one chosen
\* is the first in the stable order by vertical centre.
C8_Desempate ==
    (Hecha /\ Admitidos # {}) =>
        LET M == Minimos
        IN  \E i \in M :
                /\ \A j \in M : Antes(i, j)
                /\ mejor_valor = Some(TextoDe(i))

C8_Testigo ==
    /\ Hecha
    /\ LET M == Minimos
       IN  \E i, j \in M :
               /\ i < j
               /\ LaPagina[j].y0 + LaPagina[j].y1 < LaPagina[i].y0 + LaPagina[i].y1
               /\ \A h \in M : Antes(j, h)
               /\ mejor_valor = Some(TextoDe(j))

\* the search run over the amounts in the order of the page
SinOrdenar ==
    Emparejar(LaCasilla, Candidatos(LaPagina, "importe"), y_tol2).mejor_valor

\* C9 as stated: the search gives the same match over the sorted amounts
\* as over the amounts in token order.
C9_OrdenSinEfecto == Hecha => mejor_valor = SinOrdenar

\* the vertical centre (doubled) of the amount at position i of the page
Centro2(i) == LaPagina[i].y0 + LaPagina[i].y1

\* among the admitted amounts at the minimum distance, the first in token
\* order is also one of lowest vertical centre (so when there is only one,
\* or when they all lie on one line)
PrimeroEsMasAlto ==
    LET M == Minimos
    IN  \A i, j \in M : (\A h \in M : i <= h) => Centro2(i) <= Centro2(j)

\* C9 as amended: the search gives the same match over the sorted amounts
\* as over the amounts in token order whenever, among the admitted amounts
\* at the minimum distance, the first in token order has the lowest
\* vertical centre.
C9_OrdenSinEfectoSinEmpate ==
    (Hecha /\ PrimeroEsMasAlto) => mejor_valor = SinOrdenar

C9_Testigo ==
    /\ Hecha
    /\ Cardinality(Minimos) >= 2
    /\ PrimeroEsMasAlto
    /\ valores # Candidatos(LaPagina, "importe")
    /\ mejor_valor # None

\* ------------------------------------------------------------------------
\* One word, many texts: the classification of lines 68-80
\* ------------------------------------------------------------------------
MaxLen == 8

\* every text of at most MaxLen characters among 1 . , with or without a
\* sign and surrounding blanks
TextosGenerados ==
    {pre \o cuerpo \o post :
        pre \in {<<>>, <<"-">>, <<" ", "-">>},
        cuerpo \in SeqHasta({"1", ".", ","}, MaxLen),
        post \in {<<>>, <<" ">>}}

TextosSueltos ==
    { T_01000, T_02600, T_02601, T_00999, T_0100u, T_17772, T_1234_5,
      T_1234_56, <<" ">> \o T_01000 \o <<" ">>, <<"0", ",", "0", "0">>,
      <<"1", "2", ".", "3", "4", "5", ".", "6", "7", "8", ",", "9", "0">>,
      <<"-", "1", ".", "2", "3", "4", ",", "5", "6">>,
      <<"U+0662", ",", "U+0662", "U+0662">>,
      <<"1", "-", "1", ",", "1", "1">>, <<"1", " ", ",", "1", "1">>,
      <<"x", "1", ",", "0", "0">>, <<"1", ",", "0", "0", "x">>,
      <<"0", "1", "0", "0", "0", "0">>, <<"1", "0", "0", "0">> }

InitClasif ==
    \E t \in TextosGenerados \cup TextosSueltos :
        Entrada(<< <<Palabra(0, 20, 10, 24, t)>> >>, Y_TOL_X2)

NextClasif == LeerPagina

SpecClasif == InitClasif /\ [][NextClasif]_vars

\* ------------------------------------------------------------------------
\* Properties of the classification (checked under SpecClasif)
\* ------------------------------------------------------------------------
\* s without its leading and trailing blanks
Recortado(s) ==
    LET N == {i \in 1..Len(s) : s[i] # " "}
    IN  IF N = {} THEN <<>>
        ELSE SubSeq(s, CHOOSE a \in N : \A b \in N : a <= b,
                       CHOOSE a \in N : \A b \in N : a >= b)

\* t, as a whole, is: an optional '-', one to three digits, zero or more
\* groups of '.' and exactly three digits, then ',' and exactly two digits
EsFormatoImporte(t) ==
    \E s \in {0, 1}, n \in 1..3, g \in 0..Len(t) :
        /\ Len(t) = s + n + 4 * g + 3
        /\ s = 1 => t[1] = "-"
        /\ \A i \in (s + 1)..(s + n) : t[i] \in DIGITOS
        /\ \A h \in 0..(g - 1) :
               /\ t[s + n + 4 * h + 1] = "."
               /\ \A i \in 2..4 : t[s + n + 4 * h + i] \in DIGITOS
        /\ t[s + n + 4 * g + 1] = ","
        /\ t[s + n + 4 * g + 2] \in DIGITOS
        /\ t[s + n + 4 * g + 3] \in DIGITOS

\* the text of the one word of the document
ElTexto == doc[1][1].texto

\* C7: the word is an amount candidate exactly when its trimmed text has
\* the amount format; 1.234,5 and 1234,56 are none; an amount candidate is
\* not also a code candidate.
C7_ClasificaImporte ==
    (Len(doc) = 1 /\ Len(doc[1]) = 1 /\ p > 1) =>
        /\ valores # <<>> <=> EsFormatoImporte(Recortado(ElTexto))
        /\ valores # <<>> => valores[1].texto = Recortado(ElTexto)
        /\ ElTexto \in {T_1234_5, T_1234_56} => valores = <<>>
        /\ valores = <<>> \/ casillas = <<>>

C7_Testigo ==
    /\ p > 1
    /\ Len(valores) = 1
    /\ Len(ElTexto) > Len(valores[1].texto)
    /\ \E i, j \in 1..Len(ElTexto) : ElTexto[i] = "-" /\ ElTexto[j] = "."

====
